---- MODULE Spec2Model ----
(***************************************************************************)
(* A model of the Groestl hash of src/groestl/src/groestl.rs: the          *)
(* streaming driver (Groestl::process, Groestl::finalize), the compression *)
(* function and output transformation (GroestlState), and the round        *)
(* transformations of the permutations P and Q.                            *)
(*                                                                         *)
(* Blocks are functions from 0..BlockSize-1 to bytes, matrices are         *)
(* functions from rows 0..7 to functions from columns 0..cols-1 to bytes,  *)
(* so that every index is the index the Rust code uses.                    *)
(***************************************************************************)
EXTENDS Integers, Sequences, FiniteSets, TLC

Byte == 0..255

(***************************************************************************)
(* Evaluation order.  TLC may evaluate a LET definition or an argument     *)
(* again at each use, and a function constructor again at each             *)
(* application.  Let(v, F) is F(v) with v evaluated once, and Eager(v) is  *)
(* v with every element evaluated once; neither changes a value.           *)
(***************************************************************************)
Let(v, F(_)) == CHOOSE r \in {F(w) : w \in {v}} : TRUE

Eager(v) == CHOOSE w \in {v} : w = w

(***************************************************************************)
(* Byte arithmetic.  ^ on u8 is computed nibble by nibble from a table of  *)
(* the sixteen by sixteen nibble sums, themselves computed bit by bit.     *)
(***************************************************************************)
RECURSIVE XorBits(_, _)
XorBits(a, b) ==
    IF a = 0 THEN b
    ELSE IF b = 0 THEN a
    ELSE (((a % 2) + (b % 2)) % 2) + 2 * XorBits(a \div 2, b \div 2)

XorNibble == [a \in 0..15 |-> [b \in 0..15 |-> XorBits(a, b)]]

XorTable == [a \in Byte |-> [b \in Byte |->
    16 * XorNibble[a \div 16][b \div 16] + XorNibble[a % 16][b % 16]]]

Xor(a, b) == XorTable[a][b]

(***************************************************************************)
(* consts: the tables the permutations read.                               *)
(***************************************************************************)
SBOX == <<
       99, 124, 119, 123, 242, 107, 111, 197,  48,   1, 103,  43, 254, 215, 171, 118,
      202, 130, 201, 125, 250,  89,  71, 240, 173, 212, 162, 175, 156, 164, 114, 192,
      183, 253, 147,  38,  54,  63, 247, 204,  52, 165, 229, 241, 113, 216,  49,  21,
        4, 199,  35, 195,  24, 150,   5, 154,   7,  18, 128, 226, 235,  39, 178, 117,
        9, 131,  44,  26,  27, 110,  90, 160,  82,  59, 214, 179,  41, 227,  47, 132,
       83, 209,   0, 237,  32, 252, 177,  91, 106, 203, 190,  57,  74,  76,  88, 207,
      208, 239, 170, 251,  67,  77,  51, 133,  69, 249,   2, 127,  80,  60, 159, 168,
       81, 163,  64, 143, 146, 157,  56, 245, 188, 182, 218,  33,  16, 255, 243, 210,
      205,  12,  19, 236,  95, 151,  68,  23, 196, 167, 126,  61, 100,  93,  25, 115,
       96, 129,  79, 220,  34,  42, 144, 136,  70, 238, 184,  20, 222,  94,  11, 219,
      224,  50,  58,  10,  73,   6,  36,  92, 194, 211, 172,  98, 145, 149, 228, 121,
      231, 200,  55, 109, 141, 213,  78, 169, 108,  86, 244, 234, 101, 122, 174,   8,
      186, 120,  37,  46,  28, 166, 180, 198, 232, 221, 116,  31,  75, 189, 139, 138,
      112,  62, 181, 102,  72,   3, 246,  14,  97,  53,  87, 185, 134, 193,  29, 158,
      225, 248, 152,  17, 105, 217, 142, 148, 155,  30, 135, 233, 206,  85,  40, 223,
      140, 161, 137,  13, 191, 230,  66, 104,  65, 153,  45,  15, 176,  84, 187,  22
    >>

\* C_P[row * 16 + col]: row 0 holds col << 4, the other rows are zero.
C_P == [n \in 0..127 |-> IF n \div 16 = 0 THEN (n % 16) * 16 ELSE 0]

\* C_Q[row * 16 + col]: row 7 holds 0xff ^ (col << 4), the other rows 0xff.
C_Q == [n \in 0..127 |-> IF n \div 16 = 7 THEN 255 - (n % 16) * 16 ELSE 255]

SHIFTS_P == [i \in 0..7 |-> <<0, 1, 2, 3, 4, 5, 6, 7>>[i + 1]]
SHIFTS_Q == [i \in 0..7 |-> <<1, 3, 5, 7, 0, 2, 4, 6>>[i + 1]]
SHIFTS_P_WIDE == [i \in 0..7 |-> <<0, 1, 2, 3, 4, 5, 6, 11>>[i + 1]]
SHIFTS_Q_WIDE == [i \in 0..7 |-> <<1, 3, 5, 11, 0, 2, 4, 6>>[i + 1]]

\* The circulant MDS matrix: row i is row 0 rotated right by i.
B == [i \in 0..7 |-> [k \in 0..7 |->
        <<2, 2, 3, 4, 5, 3, 5, 7>>[((k - i + 8) % 8) + 1]]]

(***************************************************************************)
(* matrix: multiplication in GF(2^8) modulo x^8 + x^4 + x^3 + x + 1 and    *)
(* the product of the constant matrix with the state matrix.               *)
(***************************************************************************)
xtime(a) == IF a >= 128 THEN Xor((2 * a) % 256, 27) ELSE 2 * a

RECURSIVE poly_mul(_, _)
poly_mul(a, b) ==
    IF b = 0 THEN 0
    ELSE Xor(IF b % 2 = 1 THEN a ELSE 0, poly_mul(xtime(a), b \div 2))

MulTable == [b \in {2, 3, 4, 5, 7} |-> [a \in Byte |-> poly_mul(a, b)]]

mul_array(matrix, a) ==
    Eager([row \in 0..7 |-> [col \in DOMAIN matrix[0] |->
        LET t(k) == MulTable[a[row][k]][matrix[k][col]]
        IN Xor(Xor(Xor(t(0), t(1)), Xor(t(2), t(3))),
               Xor(Xor(t(4), t(5)), Xor(t(6), t(7))))]])

(***************************************************************************)
(* GroestlState: the chaining state, the round count and the block         *)
(* counter.  BlockSize and OutputSize are type parameters in the code;     *)
(* here BlockSize is the length of the chaining state and OutputSize is    *)
(* carried in the phantom field.                                           *)
(***************************************************************************)
xor_generic_array(a1, a2) == Eager([i \in DOMAIN a1 |-> Xor(a1[i], a2[i])])

RECURSIVE gcd(_, _)
gcd(a, b) == IF b = 0 THEN a ELSE gcd(b, a % b)

\* v >> (8 * n)
RECURSIVE ShiftRightBytes(_, _)
ShiftRightBytes(v, n) == IF n = 0 THEN v ELSE ShiftRightBytes(v \div 256, n - 1)

\* byte_tools::write_u64_be: the eight bytes of v, most significant first.
write_u64_be(v) == [k \in 0..7 |-> ShiftRightBytes(v, 7 - k) % 256]

BlockBytes(self) == Cardinality(DOMAIN self.state)

GroestlState_default(OutputSize, BlockSize) ==
    LET block_bytes == BlockSize
        output_bits == OutputSize * 8
        be == write_u64_be(output_bits)
        iv == [i \in 0..block_bytes - 1 |->
                 IF i >= block_bytes - 8 THEN be[i - (block_bytes - 8)] ELSE 0]
    IN [state |-> iv,
        rounds |-> IF block_bytes = 128 THEN 14 ELSE 10,
        num_blocks |-> 0,
        phantom |-> OutputSize]

wide(self) == BlockBytes(self) = 128

block_to_matrix(self, block) ==
    LET rows == 8
        cols == BlockBytes(self) \div 8
    IN Eager([j \in 0..rows - 1 |-> [i \in 0..cols - 1 |-> block[i * rows + j]]])

matrix_to_block(self, matrix) ==
    LET rows == 8
        cols == Cardinality(DOMAIN matrix[0])
    IN Eager([n \in 0..rows * cols - 1 |-> matrix[n % rows][n \div rows]])

\* A faulty add_round_constant, which xors the round index into row 0 for
\* both tables.
add_round_constant_row0(matrix, c, round) ==
    Eager([i \in 0..7 |-> [j \in DOMAIN matrix[i] |->
        LET x == Xor(matrix[i][j], c[i * 16 + j])
        IN IF i = 0 THEN Xor(x, round) ELSE x]])

add_round_constant(matrix, c, round) ==
    Eager([i \in 0..7 |-> [j \in DOMAIN matrix[i] |->
        LET x == Xor(matrix[i][j], c[i * 16 + j])
        IN IF c[0] = 0 /\ i = 0 THEN Xor(x, round)
           ELSE IF c[0] = 255 /\ i = 7 THEN Xor(x, round)
           ELSE x]])

sub_bytes(matrix) ==
    Eager([i \in 0..7 |-> [j \in DOMAIN matrix[i] |-> SBOX[matrix[i][j] + 1]]])

(***************************************************************************)
(* shift_bytes rotates each row in place, one cycle of the rotation at a   *)
(* time.  ShiftLoop is the inner loop: k is the slot being filled, j the   *)
(* slot the cycle started from.  The loop has no bound in the code; fuel   *)
(* counts its iterations, and a loop still running after more iterations   *)
(* than the row has slots does not terminate (a cycle of a rotation visits *)
(* no slot twice): the row, and the matrix, are then Diverged.             *)
(***************************************************************************)
Diverged == << >>

RECURSIVE ShiftLoop(_, _, _, _, _, _)
ShiftLoop(row, shift, cols, j, k, fuel) ==
    LET pos == (k + shift) % cols
    IN IF fuel = 0 THEN [done |-> FALSE, row |-> row, k |-> k]
       ELSE IF pos = j THEN [done |-> TRUE, row |-> row, k |-> k]
       ELSE ShiftLoop([row EXCEPT ![k] = row[pos]], shift, cols, j, pos, fuel - 1)

RECURSIVE ShiftCycles(_, _, _, _, _)
ShiftCycles(row, shift, cols, j, d) ==
    IF j >= d THEN row
    ELSE Let(ShiftLoop(row, shift, cols, j, j, cols + 1),
             LAMBDA r :
                 IF ~r.done THEN Diverged
                 ELSE ShiftCycles([r.row EXCEPT ![r.k] = row[j]],
                                  shift, cols, j + 1, d))

\* A faulty ShiftRow, which rotates one cycle only, as if the shift and the
\* number of columns had no common divisor.
ShiftRowOneCycle(row, shift) ==
    LET cols == Cardinality(DOMAIN row)
    IN IF shift = 0 THEN row
       ELSE ShiftCycles(row, shift, cols, 0, 1)

ShiftRow(row, shift) ==
    LET cols == Cardinality(DOMAIN row)
    IN IF shift = 0 THEN row
       ELSE ShiftCycles(row, shift, cols, 0, gcd(shift, cols))

shift_bytes(matrix, shifts) ==
    Let([i \in 0..7 |-> ShiftRow(matrix[i], shifts[i])],
        LAMBDA rows :
            IF \E i \in 0..7 : rows[i] = Diverged THEN Diverged ELSE rows)

mix_bytes(matrix) == mul_array(matrix, B)

\* One round; a shift that does not terminate leaves no matrix to mix.
Round(matrix, c, shifts, round) ==
    Let(shift_bytes(sub_bytes(add_round_constant(matrix, c, round)), shifts),
        LAMBDA shifted :
            IF shifted = Diverged THEN Diverged ELSE mix_bytes(shifted))

\* for round in 0..self.rounds
RECURSIVE Rounds(_, _, _, _, _)
Rounds(matrix, c, shifts, round, rounds) ==
    IF round >= rounds THEN matrix
    ELSE Let(Round(matrix, c, shifts, round),
             LAMBDA next :
                 IF next = Diverged THEN Diverged
                 ELSE Rounds(next, c, shifts, round + 1, rounds))

Permute(self, block, c, shifts) ==
    Let(Rounds(block_to_matrix(self, block), c, shifts, 0, self.rounds),
        LAMBDA matrix :
            IF matrix = Diverged THEN Diverged
            ELSE matrix_to_block(self, matrix))

p(self, block) ==
    Permute(self, block, C_P, IF wide(self) THEN SHIFTS_P_WIDE ELSE SHIFTS_P)

q(self, block) ==
    Permute(self, block, C_Q, IF wide(self) THEN SHIFTS_Q_WIDE ELSE SHIFTS_Q)

\* A faulty compress, which leaves num_blocks alone.
compress_uncounted(self, input_block) ==
    [self EXCEPT
        !.state = xor_generic_array(
                      xor_generic_array(
                          p(self, xor_generic_array(self.state, input_block)),
                          q(self, input_block)),
                      self.state)]

compress(self, input_block) ==
    [self EXCEPT
        !.state = xor_generic_array(
                      xor_generic_array(
                          p(self, xor_generic_array(self.state, input_block)),
                          q(self, input_block)),
                      self.state),
        !.num_blocks = self.num_blocks + 1]

(***************************************************************************)
(* GroestlState::finalize: the last OutputSize bytes of P(h) ^ h.  The     *)
(* slice a[a.len() - OutputSize..] panics when OutputSize exceeds the      *)
(* block length (the subtraction overflows, or the range is out of order). *)
(***************************************************************************)
\* A faulty output transformation, which keeps the first OutputSize bytes.
GroestlState_finalize_leading(self) ==
    Let(xor_generic_array(p(self, self.state), self.state),
        LAMBDA a :
            LET len == Cardinality(DOMAIN a)
                n == self.phantom
            IN IF n > len THEN [panicked |-> TRUE, digest |-> << >>]
               ELSE [panicked |-> FALSE,
                     digest |-> Eager([i \in 0..n - 1 |-> a[i]])])

GroestlState_finalize(self) ==
    Let(xor_generic_array(p(self, self.state), self.state),
        LAMBDA a :
            LET len == Cardinality(DOMAIN a)
                n == self.phantom
            IN IF n > len THEN [panicked |-> TRUE, digest |-> << >>]
               ELSE [panicked |-> FALSE,
                     digest |-> Eager([i \in 0..n - 1 |-> a[len - n + i]])])

(***************************************************************************)
(* digest_buffer::DigestBuffer: a block-sized buffer and its fill count    *)
(* pos.  Its operations yield the buffer they leave and, in blocks, the    *)
(* blocks they hand to the callback func, in order.                        *)
(***************************************************************************)
Min(a, b) == IF a <= b THEN a ELSE b

DigestBuffer_default(BlockSize) ==
    [buffer |-> [i \in 0..BlockSize - 1 |-> 0], pos |-> 0]

size(self) == Cardinality(DOMAIN self.buffer)

remaining(self) == size(self) - self.pos

\* input(input, func): copy input[from..] into the buffer; every time the
\* buffer holds a full block, hand it to func and start the buffer over.
RECURSIVE input_from(_, _, _, _)
input_from(self, input, from, blocks) ==
    LET len == Cardinality(DOMAIN input) - from
        take == Min(remaining(self), len)
    IN IF len = 0 THEN [buffer |-> self, blocks |-> blocks]
       ELSE Let([i \in DOMAIN self.buffer |->
                    IF i >= self.pos /\ i < self.pos + take
                    THEN input[from + (i - self.pos)]
                    ELSE self.buffer[i]],
                LAMBDA filled :
                    IF self.pos + take = size(self)
                    THEN Let([buffer |-> filled, pos |-> 0],
                             LAMBDA emptied :
                                 input_from(emptied, input, from + take,
                                            Append(blocks, filled)))
                    ELSE [buffer |-> [buffer |-> filled, pos |-> self.pos + take],
                          blocks |-> blocks])

input(self, bytes) == input_from(self, bytes, 0, << >>)

\* zero_until(idx): zero the bytes from pos up to idx.
zero_until(self, idx) ==
    [buffer |-> Eager([i \in DOMAIN self.buffer |->
                   IF i >= self.pos /\ i < idx THEN 0 ELSE self.buffer[i]]),
     pos |-> idx]

\* standard_padding(rem, func): append 0x80; when fewer than rem bytes are
\* left, fill with zeros, hand the block to func and start a fresh block;
\* then fill with zeros up to the last rem bytes.
standard_padding(self, rem) ==
    Let([buffer |-> [self.buffer EXCEPT ![self.pos] = 128], pos |-> self.pos + 1],
        LAMBDA marked :
            IF remaining(marked) < rem
            THEN Let(zero_until(marked, size(self)),
                     LAMBDA full :
                         [buffer |-> zero_until([full EXCEPT !.pos = 0],
                                                size(self) - rem),
                          blocks |-> <<full.buffer>>])
            ELSE [buffer |-> zero_until(marked, size(self) - rem),
                  blocks |-> << >>])

\* next(len) followed by a write of bytes into the slice it returns.
next_write(self, len, bytes) ==
    [buffer |-> Eager([i \in DOMAIN self.buffer |->
                   IF i >= self.pos /\ i < self.pos + len
                   THEN bytes[i - self.pos] ELSE self.buffer[i]]),
     pos |-> self.pos + len]

\* full_buffer(): the whole buffer, which must be full; the buffer starts over.
full_buffer(self) == [buffer |-> [self EXCEPT !.pos = 0], block |-> self.buffer]

(***************************************************************************)
(* Groestl: the hasher handle, a buffer and a GroestlState.                *)
(***************************************************************************)
Groestl_default(OutputSize, BlockSize) ==
    [buffer |-> DigestBuffer_default(BlockSize),
     state |-> GroestlState_default(OutputSize, BlockSize)]

\* A faulty closure, which compresses the first block handed over and drops
\* the others.
compress_first(state, blocks, k) ==
    IF k > Len(blocks) THEN state ELSE compress(state, blocks[k])

\* The closure |b| { state.compress(b); } applied to each block handed over.
RECURSIVE compress_each(_, _, _)
compress_each(state, blocks, k) ==
    IF k > Len(blocks) THEN state
    ELSE Let(compress(state, blocks[k]),
             LAMBDA next :
                 IF next.state = Diverged THEN next
                 ELSE compress_each(next, blocks, k + 1))

\* A faulty process, which compresses only the last block the buffer hands
\* over in a call.
process_last_block(self, bytes) ==
    Let(input(self.buffer, bytes),
        LAMBDA r : [buffer |-> r.buffer,
                    state |-> IF Len(r.blocks) = 0 THEN self.state
                              ELSE compress(self.state, r.blocks[Len(r.blocks)])])

process(self, bytes) ==
    Let(input(self.buffer, bytes),
        LAMBDA r : [buffer |-> r.buffer,
                    state |-> compress_each(self.state, r.blocks, 1)])

\* The value of the eight big-endian bytes block[from .. from + 7].
RECURSIVE read_be(_, _, _)
read_be(block, from, n) ==
    IF n = 0 THEN 0
    ELSE 256 * read_be(block, from, n - 1) + block[from + n - 1]

\* A faulty finalize, which writes the counter from num_blocks as it was
\* before the padding.
finalize_stale_counter(self) ==
    Let(standard_padding(self.buffer, 8), LAMBDA padding :
    Let(compress_each(self.state, padding.blocks, 1), LAMBDA padded :
    Let(full_buffer(next_write(padding.buffer, 8,
                               write_u64_be(self.state.num_blocks + 1))), LAMBDA last :
    Let(compress(padded, last.block), LAMBDA state :
    Let(GroestlState_finalize(state), LAMBDA out :
        [digest |-> out.digest,
         panicked |-> out.panicked,
         carried |-> Len(padding.blocks),
         padded |-> padded.num_blocks,
         block |-> last.block,
         compressions |-> Len(padding.blocks) + 1,
         state |-> state])))))

\* A faulty finalize, which has the padding keep sixteen bytes free.
finalize_reserve_sixteen(self) ==
    Let(standard_padding(self.buffer, 16), LAMBDA padding :
    Let(compress_each(self.state, padding.blocks, 1), LAMBDA padded :
    Let(full_buffer(next_write(padding.buffer, 8,
                               write_u64_be(padded.num_blocks + 1))), LAMBDA last :
    Let(compress(padded, last.block), LAMBDA state :
    Let(GroestlState_finalize(state), LAMBDA out :
        [digest |-> out.digest,
         panicked |-> out.panicked,
         carried |-> Len(padding.blocks),
         padded |-> padded.num_blocks,
         block |-> last.block,
         compressions |-> Len(padding.blocks) + 1,
         state |-> state])))))

(***************************************************************************)
(* Groestl::finalize.  digest is what the call returns; the other fields   *)
(* record what the call did: the blocks standard_padding handed to         *)
(* compress (carried), num_blocks when the counter was written (padded),   *)
(* the last block, the number of compress calls, and the state the output  *)
(* transformation was applied to.                                          *)
(***************************************************************************)
finalize(self) ==
    Let(standard_padding(self.buffer, 8), LAMBDA padding :
    Let(compress_each(self.state, padding.blocks, 1), LAMBDA padded :
    Let(full_buffer(next_write(padding.buffer, 8,
                               write_u64_be(padded.num_blocks + 1))), LAMBDA last :
    Let(compress(padded, last.block), LAMBDA state :
    Let(GroestlState_finalize(state), LAMBDA out :
        [digest |-> out.digest,
         panicked |-> out.panicked,
         carried |-> Len(padding.blocks),
         padded |-> padded.num_blocks,
         block |-> last.block,
         compressions |-> Len(padding.blocks) + 1,
         state |-> state])))))

(***************************************************************************)
(* The state machine of one hasher handle and its caller.                  *)
(*                                                                         *)
(*   hasher        the caller's Groestl value                              *)
(*   fed           the number of message bytes passed to process so far    *)
(*   compressions  the number of compress calls process has made           *)
(*   chunked       what the handle looks like when the input of the last   *)
(*                 process call is passed in two calls instead, one entry  *)
(*                 per way of cutting it that the step tried               *)
(*   outcome       what the last call did when it was finalize             *)
(*   lastop        the last call and the length of its input               *)
(*                                                                         *)
(* and, for the round transformations applied on their own,                *)
(*                                                                         *)
(*   matrix        the matrix a transformation was applied to last         *)
(*   before        that matrix before the transformation                   *)
(*   applied       the transformation and its arguments                    *)
(*   steps         the number of transformations applied                   *)
(***************************************************************************)
VARIABLES hasher, fed, compressions, chunked, outcome, lastop,
          matrix, before, applied, steps

driverVars == <<hasher, fed, compressions, chunked, outcome, lastop>>
roundVars == <<matrix, before, applied, steps>>
vars == <<hasher, fed, compressions, chunked, outcome, lastop,
          matrix, before, applied, steps>>

\* The longest message fed to a handle.
MaxMsgLen == 130

\* The number of round transformations applied in a row.
MaxSteps == 2

\* The message: the calls of process pass successive slices of it.
Message == [i \in 0..MaxMsgLen - 1 |-> (37 * i + 11) % 256]

Slice(from, len) == [k \in 0..len - 1 |-> Message[from + k]]

SubSlice(bytes, from, len) == [k \in 0..len - 1 |-> bytes[from + k]]

\* The lengths of the slices passed to process.
InputLens(BlockSize) == {0, 8, BlockSize - 9, BlockSize, 2 * BlockSize}

\* The places where a slice of length len is cut in two, the block boundary
\* among them when the slice crosses it.
Cuts(len, pos, BlockSize) ==
    {cut \in {0, 1, len \div 2, BlockSize - pos, len - 1, len} :
        cut >= 0 /\ cut <= len}

\* What the handle holds: h, the block counter, the fill count and the
\* buffered bytes.
Observable(self) ==
    [state |-> self.state.state,
     num_blocks |-> self.state.num_blocks,
     pos |-> self.buffer.pos,
     contents |-> [i \in 0..self.buffer.pos - 1 |-> self.buffer.buffer[i]]]

NoOutcome == [panicked |-> FALSE, digest |-> << >>, carried |-> 0, padded |-> 0,
              block |-> << >>, compressions |-> 0, state |-> << >>]

NoMatrix == << >>
NotApplied == [op |-> "none", kind |-> "", round |-> 0, shifts |-> << >>]
NoHandle == << >>

BlockSizeOf(self) == size(self.buffer)
OutputSizeOf(self) == self.state.phantom

InitHandle(OutputSize, BlockSize) ==
    /\ hasher = Groestl_default(OutputSize, BlockSize)
    /\ fed = 0
    /\ compressions = 0
    /\ chunked = {Observable(hasher)}
    /\ outcome = NoOutcome
    /\ lastop = [op |-> "default", len |-> 0]
    /\ matrix = NoMatrix
    /\ before = NoMatrix
    /\ applied = NotApplied
    /\ steps = 0

\* Groestl-256 on 64-byte blocks and Groestl-512 on 128-byte blocks.
Init == \E sizes \in {<<32, 64>>, <<64, 128>>} : InitHandle(sizes[1], sizes[2])

\* Any output size the type parameters allow on 64-byte blocks.
InitAnySize == \E OutputSize \in {32, 72} : InitHandle(OutputSize, 64)

\* process(first part of bytes) followed by process(the rest).
TwoCalls(self, bytes, cut) ==
    Let(process(self, SubSlice(bytes, 0, cut)),
        LAMBDA first :
            process(first, SubSlice(bytes, cut, Cardinality(DOMAIN bytes) - cut)))

\* hasher.process(input), input being the next len bytes of the message.
Process(len) ==
    /\ fed + len <= MaxMsgLen
    /\ \E bytes \in {Slice(fed, len)} :
        /\ hasher' = process(hasher, bytes)
        /\ compressions' = compressions + Len(input(hasher.buffer, bytes).blocks)
        /\ chunked' = {Let(TwoCalls(hasher, bytes, cut), Observable) :
                          cut \in Cuts(len, hasher.buffer.pos, BlockSizeOf(hasher))}
    /\ fed' = fed + len
    /\ outcome' = NoOutcome
    /\ lastop' = [op |-> "process", len |-> len]
    /\ UNCHANGED roundVars

\* hasher.finalize().  Groestl is Copy, so the call takes a copy of the
\* caller's value and leaves the caller's value as it was.
Finalize ==
    /\ outcome' = finalize(hasher)
    /\ lastop' = [op |-> "finalize", len |-> 0]
    /\ UNCHANGED <<hasher, fed, compressions, chunked>>
    /\ UNCHANGED roundVars

Next ==
    \/ \E len \in InputLens(BlockSizeOf(hasher)) : Process(len)
    \/ Finalize

Spec == Init /\ [][Next]_vars

SpecAnySize == InitAnySize /\ [][Next]_vars

(***************************************************************************)
(* The round transformations on their own: shift_bytes and                 *)
(* add_round_constant applied, a few times in a row, to the matrix of a    *)
(* block of 64 or of 128 bytes.                                            *)
(***************************************************************************)
\* 0, 1, 2, ... as in test_shift_bytes, and the padding block of the tests.
CountingBlock(BlockSize) == [i \in 0..BlockSize - 1 |-> i]

PaddingBlock(BlockSize) ==
    [i \in 0..BlockSize - 1 |->
        IF i = 0 THEN 128 ELSE IF i = BlockSize - 1 THEN 1 ELSE 0]

Cols(m) == Cardinality(DOMAIN m[0])

\* Shift vectors with every entry below cols: the rows all shifted alike,
\* each row shifted one more than the row above, and the tables of consts.
ShiftVectors(cols) ==
    {[i \in 0..7 |-> (a + b * i) % cols] : a \in 0..cols - 1, b \in {0, 1}}
    \cup {t \in {SHIFTS_P, SHIFTS_Q, SHIFTS_P_WIDE, SHIFTS_Q_WIDE} :
             \A i \in 0..7 : t[i] < cols}

RoundIndices == {0, 1, 13}

ConstantTable(kind) == IF kind = "P" THEN C_P ELSE C_Q

InitRound ==
    /\ \E BlockSize \in {64, 128} :
         \E block \in {CountingBlock(BlockSize), PaddingBlock(BlockSize)} :
            matrix = block_to_matrix(GroestlState_default(BlockSize \div 2, BlockSize),
                                     block)
    /\ before = matrix
    /\ applied = NotApplied
    /\ steps = 0
    /\ hasher = NoHandle
    /\ fed = 0
    /\ compressions = 0
    /\ chunked = {}
    /\ outcome = NoOutcome
    /\ lastop = [op |-> "none", len |-> 0]

ShiftBytes(shifts) ==
    /\ steps < MaxSteps
    /\ matrix # Diverged
    /\ matrix' = shift_bytes(matrix, shifts)
    /\ before' = matrix
    /\ applied' = [op |-> "shift_bytes", kind |-> "", round |-> 0, shifts |-> shifts]
    /\ steps' = steps + 1
    /\ UNCHANGED driverVars

AddRoundConstant(kind, round) ==
    /\ steps < MaxSteps
    /\ matrix # Diverged
    /\ matrix' = add_round_constant(matrix, ConstantTable(kind), round)
    /\ before' = matrix
    /\ applied' = [op |-> "add_round_constant", kind |-> kind, round |-> round,
                   shifts |-> << >>]
    /\ steps' = steps + 1
    /\ UNCHANGED driverVars

NextRound ==
    \/ \E shifts \in ShiftVectors(Cols(matrix)) : ShiftBytes(shifts)
    \/ \E kind \in {"P", "Q"}, round \in RoundIndices : AddRoundConstant(kind, round)

SpecRound == InitRound /\ [][NextRound]_vars

(***************************************************************************)
(* Properties.                                                             *)
(***************************************************************************)
Finalized == lastop.op = "finalize"

\* The counter in the last eight bytes of the last block finalize compressed.
WrittenCounter == read_be(outcome.block, BlockSizeOf(hasher) - 8, 8)

\* The digest of the message fed so far when it is passed in one call to a
\* fresh handle.
OneCallDigest ==
    Let(process(Groestl_default(OutputSizeOf(hasher), BlockSizeOf(hasher)),
                Slice(0, fed)),
        LAMBDA whole : finalize(whole).digest)

(* C1: passing a slice to process in one call leaves the handle (h, the    *)
(* block counter, the fill count and the buffered bytes) exactly as        *)
(* passing it in two calls does, wherever the slice is cut, and the digest *)
(* is that of the whole message passed in a single call.                   *)
C1_ChunkingIndependence ==
    /\ chunked = {Observable(hasher)}
    /\ (Finalized /\ ~outcome.panicked) => outcome.digest = OneCallDigest

\* A process call on a handle with buffered bytes whose slice, a block
\* long, crosses the block boundary, cut in all the ways of Cuts.
C1_Witness ==
    /\ lastop = [op |-> "process", len |-> BlockSizeOf(hasher)]
    /\ hasher.buffer.pos = BlockSizeOf(hasher) - 9
    /\ hasher.state.num_blocks = 1
    /\ Cardinality(Cuts(lastop.len, hasher.buffer.pos, BlockSizeOf(hasher))) >= 5
    /\ chunked = {Observable(hasher)}

(* C2: the counter finalize writes into the last eight bytes of the last   *)
(* block is the number of compress calls made on the handle, those of      *)
(* process, that of a block carried over by the padding, and the last.     *)
C2_CounterIsCompressCount ==
    Finalized => WrittenCounter = compressions + outcome.compressions

\* A finalize after one message block, with a block carried over.
C2_Witness ==
    /\ Finalized
    /\ compressions = 1
    /\ outcome.carried = 1
    /\ WrittenCounter = 3

(* C3, as stated: when the padding carries a block over, compressing it    *)
(* leaves num_blocks at its value before finalize, and the counter written *)
(* is that value plus one.                                                 *)
C3_CarryNotCounted ==
    (Finalized /\ outcome.carried = 1) =>
        /\ outcome.padded = hasher.state.num_blocks
        /\ WrittenCounter = hasher.state.num_blocks + 1

(* C3, amended: when the padding carries a block over, compressing it adds *)
(* one to num_blocks, and the counter written is the value of num_blocks   *)
(* before finalize plus two: it counts the block carried over.             *)
C3_CarryCounted ==
    (Finalized /\ outcome.carried = 1) =>
        /\ outcome.padded = hasher.state.num_blocks + 1
        /\ WrittenCounter = hasher.state.num_blocks + 2

\* A finalize that carries a block over, with no message block before it.
C3_Witness ==
    /\ Finalized
    /\ outcome.carried = 1
    /\ hasher.state.num_blocks = 0
    /\ fed = BlockSizeOf(hasher) - 1

(* C4: between calls the buffer holds fewer bytes than a block, and every  *)
(* block the buffer filled was compressed exactly once: the bytes fed are  *)
(* the blocks compressed and the bytes buffered.                           *)
C4_BufferNeverFull ==
    /\ hasher.buffer.pos \in 0..BlockSizeOf(hasher) - 1
    /\ hasher.state.num_blocks = compressions
    /\ BlockSizeOf(hasher) * hasher.state.num_blocks + hasher.buffer.pos = fed

\* A process call whose eight bytes fill the buffer exactly.
C4_Witness ==
    /\ lastop = [op |-> "process", len |-> 8]
    /\ fed = BlockSizeOf(hasher)
    /\ hasher.buffer.pos = 0
    /\ hasher.state.num_blocks = 1

(* C5: the digest finalize returns has OutputSize bytes, the last          *)
(* OutputSize bytes of P(h) ^ h, h being the chaining state after the last *)
(* compression.                                                            *)
C5_DigestIsTruncatedOmega ==
    Finalized =>
        /\ ~outcome.panicked
        /\ DOMAIN outcome.digest = 0..OutputSizeOf(hasher) - 1
        /\ outcome.state.num_blocks = compressions + outcome.compressions
        /\ Let(p(outcome.state, outcome.state.state),
               LAMBDA ph :
                   \A i \in 0..OutputSizeOf(hasher) - 1 :
                       LET at == BlockSizeOf(hasher) - OutputSizeOf(hasher) + i
                       IN outcome.digest[i] = Xor(ph[at], outcome.state.state[at]))

\* Groestl-256 of the empty message.
EmptyDigest ==
    <<26, 82, 209, 29, 85, 0, 57, 190, 22, 16, 127, 156, 88, 219, 158, 188,
      196, 23, 241, 111, 115, 106, 219, 37, 2, 86, 113, 25, 240, 8, 52, 103>>

\* finalize on a fresh Groestl-256 handle returns the published digest.
C5_Witness ==
    /\ Finalized
    /\ fed = 0
    /\ OutputSizeOf(hasher) = 32
    /\ \A i \in 0..31 : outcome.digest[i] = EmptyDigest[i + 1]

(* C6, as stated: once finalize has been called on a handle, process is    *)
(* not called on that handle again.                                        *)
C6_FinalizeConsumes == [][Finalized => lastop'.op # "process"]_vars

(* C7, as stated: no process or finalize runs on a handle whose output     *)
(* size exceeds its block size.                                            *)
C7_OutputFitsBlock ==
    lastop.op \in {"process", "finalize"} =>
        OutputSizeOf(hasher) <= BlockSizeOf(hasher)

(* C8: when finalize starts, num_blocks is the number of whole blocks in   *)
(* the bytes fed; finalize compresses once when the bytes left over are    *)
(* fewer than the block size less eight, and twice otherwise.              *)
C8_CompressionsByLength ==
    Finalized =>
        /\ hasher.state.num_blocks = fed \div BlockSizeOf(hasher)
        /\ outcome.compressions =
               IF fed % BlockSizeOf(hasher) < BlockSizeOf(hasher) - 8 THEN 1 ELSE 2
        /\ outcome.state.num_blocks =
               (fed \div BlockSizeOf(hasher)) + outcome.compressions

\* A finalize after one whole block and a rest eight short of a block.
C8_Witness ==
    /\ Finalized
    /\ fed = 2 * BlockSizeOf(hasher) - 8
    /\ hasher.state.num_blocks = 1
    /\ outcome.compressions = 2

(* C9: shift_bytes terminates and leaves in row i, column k, what was in   *)
(* row i, column (k + shifts[i]) mod cols.                                 *)
C9_ShiftIsRotation ==
    applied.op = "shift_bytes" =>
        /\ matrix # Diverged
        /\ \A i \in 0..7 : \A k \in 0..Cols(before) - 1 :
               matrix[i][k] = before[i][(k + applied.shifts[i]) % Cols(before)]

\* The block test_shift_bytes expects.
ShiftedCountingBlock ==
    <<0, 9, 18, 27, 36, 45, 54, 63, 8, 17, 26, 35, 44, 53, 62, 7,
      16, 25, 34, 43, 52, 61, 6, 15, 24, 33, 42, 51, 60, 5, 14, 23,
      32, 41, 50, 59, 4, 13, 22, 31, 40, 49, 58, 3, 12, 21, 30, 39,
      48, 57, 2, 11, 20, 29, 38, 47, 56, 1, 10, 19, 28, 37, 46, 55>>

\* SHIFTS_P, whose rows 2, 4 and 6 rotate in more than one cycle, applied
\* to the matrix of 0, 1, 2, ...
C9_Witness ==
    /\ applied.op = "shift_bytes"
    /\ applied.shifts = SHIFTS_P
    /\ steps = 1
    /\ Cols(before) = 8
    /\ matrix # Diverged
    /\ \A n \in 0..63 : matrix[n % 8][n \div 8] = ShiftedCountingBlock[n + 1]

(* C10: add_round_constant with C_P leaves M[0][j] ^ (j << 4) ^ round in   *)
(* row 0 and rows 1 to 7 as they were; with C_Q it leaves M[i][j] ^ 0xff   *)
(* in rows 0 to 6 and M[7][j] ^ 0xff ^ (j << 4) ^ round in row 7.          *)
C10_RoundConstant ==
    applied.op = "add_round_constant" =>
        \A i \in 0..7 : \A j \in 0..Cols(before) - 1 :
            matrix[i][j] =
                IF applied.kind = "P"
                THEN IF i = 0
                     THEN Xor(Xor(before[0][j], j * 16), applied.round)
                     ELSE before[i][j]
                ELSE IF i = 7
                     THEN Xor(Xor(Xor(before[7][j], 255), j * 16), applied.round)
                     ELSE Xor(before[i][j], 255)

\* C_Q with the last round index of the wide variant on sixteen columns.
C10_Witness ==
    /\ applied.op = "add_round_constant"
    /\ applied.kind = "Q"
    /\ applied.round = 13
    /\ Cols(before) = 16
    /\ matrix[7][15] # before[7][15]

====
